---- MODULE Spec2Model ----
(***************************************************************************)
(* Accounting core of the single-resource AssetPool blueprint              *)
(* (single_resource_pool/src/lib.rs).                                      *)
(*                                                                         *)
(* Amounts are Decimals counted in the Decimal's smallest unit, so the     *)
(* model's Decimal keeps no fractional digit (scrypto: 18).  A             *)
(* PreciseDecimal is counted in sub-units, PreciseOne of them to 1, so it  *)
(* keeps the extra digits of the ratio (scrypto: 18 more than Decimal).    *)
(* Decimal and PreciseDecimal arithmetic is the checked arithmetic of      *)
(* scrypto: products and quotients are truncated toward zero.  Values are  *)
(* assumed to stay inside the representable range (no overflow panic).     *)
(*                                                                         *)
(* Calls are grouped in atomic operations (transactions).  A call that     *)
(* panics aborts the operation: every change made since the operation      *)
(* began is rolled back.  An operation can only end successfully when no   *)
(* flash-loan receipt is left on the caller's worktop, because the receipt *)
(* resource cannot be deposited anywhere.                                  *)
(***************************************************************************)
EXTENDS Integers, FiniteSets

VARIABLES
    liquidity,                  \* self.liquidity.amount(): assets in custody
    external_liquidity_amount,  \* self.external_liquidity_amount
    unit_to_asset_ratio,        \* self.unit_to_asset_ratio (PreciseDecimal sub-units)
    pool_unit_supply,           \* self.pool_unit_res_manager.total_supply()
    flashloan_terms,            \* outstanding FlashloanTerm non-fungibles
    asset_step,                 \* smallest amount of the pooled resource (its divisibility)
    committed,                  \* the pool as of the last committed operation
    last,                       \* the last call: its name, arguments and outcome
    round_trip,                 \* history: a contribute and the redeem of its units
    scenario,                   \* TRUE while the pool runs the worked example
    calls                       \* calls that returned in the operation in progress

vars == << liquidity, external_liquidity_amount, unit_to_asset_ratio,
           pool_unit_supply, flashloan_terms, asset_step, committed, last,
           round_trip, scenario, calls >>

(***************************************************************************)
(* Bounds of the model.                                                    *)
(***************************************************************************)
\* largest amount passed to a call
MaxAmount == 2
\* largest custody balance explored
MaxLiquidity == 2
\* largest pool-unit supply explored
MaxSupply == 2
\* largest |external_liquidity_amount| explored
MaxExternal == 1
\* largest number of flash loans outstanding at once
MaxLoans == 1
\* sub-units of a PreciseDecimal per 1 (scrypto: 10^36, the Decimal unit being 10^18)
PreciseOne == 1000
\* smallest amount of an asset whose divisibility is below the Decimal's precision
CoarseStep == 2
\* largest number of calls explored in one operation
MaxCalls == 3
\* largest custody the worked example starts from, in units of 50 tokens
ScenarioCustody == 20

(***************************************************************************)
(* Decimal / PreciseDecimal arithmetic.                                    *)
(***************************************************************************)
Abs(x) == IF x < 0 THEN -x ELSE x

\* integer division truncated toward zero (Rust's / on the backing integers)
TDiv(a, b) ==
    IF (a >= 0) = (b > 0) THEN Abs(a) \div Abs(b) ELSE -(Abs(a) \div Abs(b))

\* PreciseDecimal::from(Decimal)
PreciseFrom(d) == d * PreciseOne

\* PreciseDecimal * PreciseDecimal
PreciseMul(x, y) == TDiv(x * y, PreciseOne)

\* PreciseDecimal / PreciseDecimal, y # 0 (division by zero panics)
PreciseDiv(x, y) == TDiv(x * PreciseOne, y)

\* PreciseDecimal::checked_truncate(RoundingMode::ToZero) to a Decimal
Truncate(x) == TDiv(x, PreciseOne)

(***************************************************************************)
(* Vault / bucket of a fungible resource whose smallest amount is step.    *)
(***************************************************************************)
WithdrawStrategies == {"Exact", "RoundedToZero", "RoundedAwayFromZero"}

\* Decimal::checked_round(divisibility, mode) for the modes modelled
RoundToStep(amount, step, strategy) ==
    LET down == TDiv(amount, step) * step
    IN  IF amount = down THEN amount
        ELSE IF strategy = "RoundedToZero" THEN down
        ELSE IF amount > 0 THEN down + step ELSE down - step

\* Decimal::for_withdrawal(divisibility, withdraw_strategy)
ForWithdrawal(amount, step, strategy) ==
    IF strategy = "Exact" THEN amount ELSE RoundToStep(amount, step, strategy)

\* check_fungible_amount: not negative, and a multiple of the smallest amount
CheckFungibleAmount(amount, step) == amount >= 0 /\ amount % step = 0

\* take_advanced(amount, strategy) on a vault or bucket holding balance succeeds
CanTake(balance, amount, step, strategy) ==
    LET w == ForWithdrawal(amount, step, strategy)
    IN  CheckFungibleAmount(w, step) /\ w <= balance

(***************************************************************************)
(* Resources, buckets and receipts handed to the pool.                     *)
(***************************************************************************)
\* the pooled asset, another fungible resource, a non-fungible of another resource
Resources == {"asset", "pool_unit", "foreign_nft"}

\* ResourceManager::resource_type().is_fungible()
IsFungible(resource) == resource \in {"asset", "pool_unit"}

\* amounts a bucket of a resource with the given smallest amount can hold
BucketAmounts(step) == {n \in 0..MaxAmount : n % step = 0}

\* Decimal arguments a caller may pass (a negative one included)
DecimalArgs == (-1)..MaxAmount

\* fees a caller may ask for: negative, none, the smallest one
FeeArgs == {-1, 0, 1}

NoReceipt ==
    [resource |-> "-", id |-> 0, loan_amount |-> 0, fee_amount |-> 0,
     burnable |-> FALSE]

\* a non-fungible of another resource whose data decodes as a FlashloanTerm
ForeignReceipts ==
    {[resource |-> "foreign_nft", id |-> 0, loan_amount |-> 1,
      fee_amount |-> 0, burnable |-> b] : b \in BOOLEAN}

\* a fungible bucket presented in place of the receipt
FungibleAsReceipt ==
    [resource |-> "pool_unit", id |-> 0, loan_amount |-> 0, fee_amount |-> 0,
     burnable |-> FALSE]

\* no contribute has just been made
NoRoundTrip == [contributed |-> 0, minted |-> 0, redeemed |-> FALSE, returned |-> 0]

\* the record of a call, kept in last
Call(op, ok, resource, amount, fee, kind, strategy, receipt, ret) ==
    [op |-> op, ok |-> ok, resource |-> resource, amount |-> amount,
     fee |-> fee, kind |-> kind, strategy |-> strategy, receipt |-> receipt,
     ret |-> ret]

(***************************************************************************)
(* The pool's state, the atomic operation around the calls.                *)
(***************************************************************************)
Pool ==
    [liquidity |-> liquidity,
     external_liquidity_amount |-> external_liquidity_amount,
     unit_to_asset_ratio |-> unit_to_asset_ratio,
     pool_unit_supply |-> pool_unit_supply,
     flashloan_terms |-> flashloan_terms]

\* the states explored: the worked example runs on its own, larger, amounts
InBounds(liq, ext, supply, terms) ==
    \/ scenario
    \/ /\ liq <= MaxLiquidity
       /\ Abs(ext) <= MaxExternal
       /\ supply <= MaxSupply
       /\ Cardinality(terms) <= MaxLoans

\* the call returns: its changes become the operation's working state
Apply(liq, ext, ratio, supply, terms, call) ==
    /\ InBounds(liq, ext, supply, terms)
    /\ calls < MaxCalls
    /\ calls' = calls + 1
    /\ liquidity' = liq
    /\ external_liquidity_amount' = ext
    /\ unit_to_asset_ratio' = ratio
    /\ pool_unit_supply' = supply
    /\ flashloan_terms' = terms
    /\ last' = call
    /\ UNCHANGED << asset_step, scenario >>

\* the call panics: the whole operation is rolled back
Abort(call) ==
    /\ liquidity' = committed.liquidity
    /\ external_liquidity_amount' = committed.external_liquidity_amount
    /\ unit_to_asset_ratio' = committed.unit_to_asset_ratio
    /\ pool_unit_supply' = committed.pool_unit_supply
    /\ flashloan_terms' = committed.flashloan_terms
    /\ calls' = 0
    /\ last' = call
    /\ UNCHANGED << asset_step, scenario >>

\* mutant: a panic leaves the changes made before it in place
PanicKeepsChanges(liq, ext, ratio, supply, terms, call) ==
    Apply(liq, ext, ratio, supply, terms, call)

\* the call panics after it changed the pool to the given state: the changes
\* are discarded with the rest of the operation
Panic(liq, ext, ratio, supply, terms, call) == Abort(call)

\* instantiate_localy: 0.into(), 1.into(), no initial supply, an empty vault
Init ==
    /\ liquidity = 0
    /\ external_liquidity_amount = 0
    /\ unit_to_asset_ratio = PreciseOne
    /\ pool_unit_supply = 0
    /\ flashloan_terms = {}
    /\ asset_step \in {1, CoarseStep}
    /\ committed = [liquidity |-> 0, external_liquidity_amount |-> 0,
                    unit_to_asset_ratio |-> PreciseOne, pool_unit_supply |-> 0,
                    flashloan_terms |-> {}]
    /\ last = Call("instantiate", TRUE, "asset", 0, 0, "-", "-", NoReceipt, 0)
    /\ round_trip = NoRoundTrip
    /\ scenario = FALSE
    /\ calls = 0

(***************************************************************************)
(* AssetPool methods.                                                      *)
(***************************************************************************)
\* mutant: the external liquidity is left out of the total
RatioOfCustodyOnly(liq, ext, supply) ==
    IF liq # 0
    THEN PreciseDiv(PreciseFrom(supply), PreciseFrom(liq))
    ELSE PreciseOne

\* mutant: an empty pool is given the ratio 0
RatioZeroWhenEmpty(liq, ext, supply) ==
    LET total_liquidity_amount == liq + ext
    IN  IF total_liquidity_amount # 0
        THEN PreciseDiv(PreciseFrom(supply), PreciseFrom(total_liquidity_amount))
        ELSE 0

_get_unit_to_asset_ratio(liq, ext, supply) ==
    LET total_liquidity_amount == liq + ext
    IN  IF total_liquidity_amount # 0
        THEN PreciseDiv(PreciseFrom(supply), PreciseFrom(total_liquidity_amount))
        ELSE PreciseOne

\* mutant: the units minted are rounded away from zero
ContributeUnitsRoundedUp(a, ratio) ==
    LET exact == PreciseMul(PreciseFrom(a), ratio)
    IN  IF exact > 0 /\ exact % PreciseOne # 0
        THEN TDiv(exact, PreciseOne) + 1 ELSE TDiv(exact, PreciseOne)

\* contribute: (assets.amount() * ratio).checked_truncate(ToZero).unwrap()
ContributeUnits(a, ratio) == Truncate(PreciseMul(PreciseFrom(a), ratio))

\* mutant: contribute recomputes the cached ratio
contribute_recomputing(resource, a) ==
    LET unit_amount == ContributeUnits(a, unit_to_asset_ratio)
        ok == resource = "asset" /\ CheckFungibleAmount(unit_amount, 1)
    IN  IF ok
        THEN Apply(liquidity + a, external_liquidity_amount,
                   _get_unit_to_asset_ratio(liquidity + a,
                                            external_liquidity_amount,
                                            pool_unit_supply + unit_amount),
                   pool_unit_supply + unit_amount, flashloan_terms,
                   Call("contribute", TRUE, resource, a, 0, "-", "-",
                        NoReceipt, unit_amount))
        ELSE Abort(Call("contribute", FALSE, resource, a, 0, "-", "-",
                        NoReceipt, 0))

contribute(resource, a) ==
    LET unit_amount == ContributeUnits(a, unit_to_asset_ratio)
        ok == /\ resource = "asset"
              \* mint: pool units keep the Decimal's precision
              /\ CheckFungibleAmount(unit_amount, 1)
    IN  IF ok
        THEN Apply(liquidity + a, external_liquidity_amount,
                   unit_to_asset_ratio, pool_unit_supply + unit_amount,
                   flashloan_terms,
                   Call("contribute", TRUE, resource, a, 0, "-", "-",
                        NoReceipt, unit_amount))
        ELSE Abort(Call("contribute", FALSE, resource, a, 0, "-", "-",
                        NoReceipt, 0))

\* mutant: the units are multiplied by the ratio instead of divided by it
RedeemAmountTimesRatio(u, ratio) == Truncate(PreciseMul(PreciseFrom(u), ratio))

\* redeem: (pool_units.amount() / ratio).checked_truncate(ToZero).unwrap()
RedeemAmount(u, ratio) == Truncate(PreciseDiv(PreciseFrom(u), ratio))

\* mutant: a payout equal to the custody balance is refused
RedeemBelowLiquidity(amount, liq) == amount < liq

\* mutant: the liquidity assertion is missing
RedeemUnchecked(amount, liq) == TRUE

\* redeem: assert!(amount <= self.liquidity.amount())
RedeemHasLiquidity(amount, liq) == amount <= liq

redeem(resource, u) ==
    LET amount == RedeemAmount(u, unit_to_asset_ratio)
        \* the checks and the division made before pool_units is burned
        burns == resource = "pool_unit" /\ unit_to_asset_ratio # 0
        ok == /\ burns
              /\ RedeemHasLiquidity(amount, liquidity)
              /\ CanTake(liquidity, amount, asset_step, "RoundedToZero")
        assets == ForWithdrawal(amount, asset_step, "RoundedToZero")
        failed == Call("redeem", FALSE, resource, u, 0, "-", "-", NoReceipt, 0)
    IN  IF ok
        THEN Apply(liquidity - assets, external_liquidity_amount,
                   unit_to_asset_ratio, pool_unit_supply - u, flashloan_terms,
                   Call("redeem", TRUE, resource, u, 0, "-", "-", NoReceipt,
                        assets))
        ELSE IF burns
        THEN Panic(liquidity, external_liquidity_amount, unit_to_asset_ratio,
                   pool_unit_supply - u, flashloan_terms, failed)
        ELSE Abort(failed)

WithdrawTypes == {"ForTemporaryUse", "LiquidityWithdrawal"}

DepositTypes == {"FromTemporaryUse", "LiquidityAddition"}

protected_withdraw(amount, withdraw_type, withdraw_strategy) ==
    LET ok == /\ amount >= 0
              /\ CanTake(liquidity, amount, asset_step, withdraw_strategy)
        assets == ForWithdrawal(amount, asset_step, withdraw_strategy)
        liq == liquidity - assets
        call(done, ret) ==
            Call("protected_withdraw", done, "asset", amount, 0, withdraw_type,
                 withdraw_strategy, NoReceipt, ret)
    IN  IF ok
        THEN IF withdraw_type = "ForTemporaryUse"
             THEN Apply(liq, external_liquidity_amount + amount,
                        unit_to_asset_ratio, pool_unit_supply, flashloan_terms,
                        call(TRUE, assets))
             ELSE Apply(liq, external_liquidity_amount,
                        _get_unit_to_asset_ratio(liq, external_liquidity_amount,
                                                 pool_unit_supply),
                        pool_unit_supply, flashloan_terms, call(TRUE, assets))
        ELSE Abort(call(FALSE, 0))

protected_deposit(resource, amount, deposit_type) ==
    LET ok == /\ IsFungible(resource)
              \* Vault::put panics on a bucket of another resource
              /\ resource = "asset"
        liq == liquidity + amount
        call(done) ==
            Call("protected_deposit", done, resource, amount, 0, deposit_type,
                 "-", NoReceipt, 0)
    IN  IF ok
        THEN IF deposit_type = "FromTemporaryUse"
             THEN Apply(liq, external_liquidity_amount - amount,
                        unit_to_asset_ratio, pool_unit_supply, flashloan_terms,
                        call(TRUE))
             ELSE Apply(liq, external_liquidity_amount,
                        _get_unit_to_asset_ratio(liq, external_liquidity_amount,
                                                 pool_unit_supply),
                        pool_unit_supply, flashloan_terms, call(TRUE))
        ELSE Abort(call(FALSE))

increase_external_liquidity(amount) ==
    LET ok == amount >= 0
        ext == external_liquidity_amount + amount
        call(done) ==
            Call("increase_external_liquidity", done, "-", amount, 0, "-", "-",
                 NoReceipt, 0)
    IN  IF ok
        THEN Apply(liquidity, ext,
                   _get_unit_to_asset_ratio(liquidity, ext, pool_unit_supply),
                   pool_unit_supply, flashloan_terms, call(TRUE))
        ELSE Abort(call(FALSE))

\* mutant: the upper assertion is missing
DecreaseAllowedNoUpperCheck(amount, ext) == amount >= 0

\* decrease_external_liquidity: the two assert!s on amount
DecreaseAllowed(amount, ext) == amount >= 0 /\ amount <= ext

decrease_external_liquidity(amount) ==
    LET ok == DecreaseAllowed(amount, external_liquidity_amount)
        ext == external_liquidity_amount - amount
        call(done) ==
            Call("decrease_external_liquidity", done, "-", amount, 0, "-", "-",
                 NoReceipt, 0)
    IN  IF ok
        THEN Apply(liquidity, ext,
                   _get_unit_to_asset_ratio(liquidity, ext, pool_unit_supply),
                   pool_unit_supply, flashloan_terms, call(TRUE))
        ELSE Abort(call(FALSE))

\* mint_ruid_non_fungible: a FlashloanTerm with an identity not in use
MintTerms(terms, loan_amount, fee_amount) ==
    LET free == {n \in 1..(Cardinality(terms) + 1) :
                    \A t \in terms : t.id # n}
        id == CHOOSE n \in free : \A m \in free : n <= m
    IN  [resource |-> "flashloan_term", id |-> id,
         loan_amount |-> loan_amount, fee_amount |-> fee_amount,
         burnable |-> TRUE]

take_flashloan(loan_amount, fee_amount) ==
    LET ok == /\ loan_amount > 0
              /\ fee_amount >= 0
              /\ loan_amount <= liquidity
              /\ CanTake(liquidity, loan_amount, asset_step, "RoundedToZero")
        loan_terms == MintTerms(flashloan_terms, loan_amount, fee_amount)
        assets == ForWithdrawal(loan_amount, asset_step, "RoundedToZero")
    IN  IF ok
        THEN Apply(liquidity - assets, external_liquidity_amount,
                   unit_to_asset_ratio, pool_unit_supply,
                   flashloan_terms \cup {loan_terms},
                   Call("take_flashloan", TRUE, "asset", loan_amount,
                        fee_amount, "-", "-", loan_terms, assets))
        ELSE Abort(Call("take_flashloan", FALSE, "asset", loan_amount,
                        fee_amount, "-", "-", NoReceipt, 0))

\* mutant: the fee is left out of the amount due
AmountDueWithoutFee(terms) == terms.loan_amount

\* repay_flashloan: terms.fee_amount + terms.loan_amount
AmountDue(terms) == terms.fee_amount + terms.loan_amount

\* mutant: the repayment assertion is missing
RepaymentUnchecked(repayment, amount_due) == TRUE

\* repay_flashloan: assert!(loan_repayment.amount() >= amount_due)
RepaymentSuffices(repayment, amount_due) == repayment >= amount_due

\* repay_flashloan: the receipts outstanding once loan_terms.burn() returned
BurnTerms(terms, loan_terms) == terms \ {loan_terms}

repay_flashloan(resource, repayment, loan_terms) ==
    LET amount_due == AmountDue(loan_terms)
        ok == /\ IsFungible(resource)
              /\ ~IsFungible(loan_terms.resource)
              /\ RepaymentSuffices(repayment, amount_due)
              /\ CanTake(repayment, amount_due, asset_step, "RoundedToZero")
              \* Vault::put panics on a bucket of another resource
              /\ resource = "asset"
              \* burn panics when the caller is not the resource's burner
              /\ loan_terms.burnable
        paid == ForWithdrawal(amount_due, asset_step, "RoundedToZero")
    IN  IF ok
        THEN Apply(liquidity + paid, external_liquidity_amount,
                   unit_to_asset_ratio, pool_unit_supply,
                   BurnTerms(flashloan_terms, loan_terms),
                   Call("repay_flashloan", TRUE, resource, repayment, 0, "-",
                        "-", loan_terms, repayment - paid))
        ELSE Abort(Call("repay_flashloan", FALSE, resource, repayment, 0, "-",
                        "-", loan_terms, 0))

(***************************************************************************)
(* The end of an atomic operation.                                         *)
(***************************************************************************)
\* mutant: the receipt can be deposited like any other resource
ReceiptDepositorAllowAll == "allow_all"

\* deposit_roles of the FlashloanTerm resource: depositor => rule!(deny_all)
ReceiptDepositorRule == "deny_all"

\* the operation can end: nothing is left on the worktop that cannot be put away
CanEnd(terms) == terms = {} \/ ReceiptDepositorRule # "deny_all"

\* the operation ends here: it commits, or is rejected and rolled back
EndOperation ==
    IF CanEnd(flashloan_terms)
    THEN /\ committed' = Pool
         /\ calls' = 0
         /\ last' = Call("end", TRUE, "-", 0, 0, "-", "-", NoReceipt, 0)
         /\ UNCHANGED << liquidity, external_liquidity_amount,
                         unit_to_asset_ratio, pool_unit_supply,
                         flashloan_terms, asset_step, scenario >>
    ELSE /\ Abort(Call("end", FALSE, "-", 0, 0, "-", "-", NoReceipt, 0))
         /\ UNCHANGED committed

\* history of a round trip: a successful contribute of a positive amount, then
\* the next call being a successful redeem of exactly the units it minted
RoundTripAfter(before, call) ==
    IF call.op = "contribute" /\ call.ok /\ call.amount > 0
    THEN [contributed |-> call.amount, minted |-> call.ret,
          redeemed |-> FALSE, returned |-> 0]
    ELSE IF /\ call.op = "redeem" /\ call.ok /\ call.resource = "pool_unit"
            /\ before.op = "contribute" /\ before.ok /\ before.amount > 0
            /\ call.amount = before.ret
    THEN [contributed |-> before.amount, minted |-> before.ret,
          redeemed |-> TRUE, returned |-> call.ret]
    ELSE NoRoundTrip

\* an operation is in progress: a call of it returned and it has not ended
InOperation == calls > 0

\* a call made inside an operation: nothing is committed before the operation
\* ends, and a panic has put the pool back to the committed one
WithinOperation ==
    /\ UNCHANGED committed
    /\ round_trip' = RoundTripAfter(last, last')

(***************************************************************************)
(* Spec: the pool's admin makes operations of any number of calls, of any  *)
(* method in any order, with a flash loan outstanding or not.  A call that *)
(* panics aborts its operation; the operation in progress ends when the    *)
(* caller ends it, committing unless a receipt is outstanding.  Operations *)
(* of up to MaxCalls calls are explored.                                   *)
(***************************************************************************)
Contribute ==
    \E r \in {"asset", "pool_unit"}, a \in BucketAmounts(asset_step) :
        /\ r = "asset" \/ a = 0
        /\ contribute(r, a)
        /\ WithinOperation

Redeem ==
    \E r \in {"asset", "pool_unit"}, u \in 0..MaxAmount :
        /\ IF r = "pool_unit" THEN u <= pool_unit_supply ELSE u = 0
        /\ redeem(r, u)
        /\ WithinOperation

ProtectedWithdraw ==
    \E a \in DecimalArgs, t \in WithdrawTypes, s \in WithdrawStrategies :
        /\ protected_withdraw(a, t, s)
        /\ WithinOperation

ProtectedDeposit ==
    \E r \in Resources, a \in BucketAmounts(asset_step), t \in DepositTypes :
        /\ r = "asset" \/ (a = 0 /\ t = "LiquidityAddition")
        /\ protected_deposit(r, a, t)
        /\ WithinOperation

IncreaseExternalLiquidity ==
    \E a \in DecimalArgs :
        increase_external_liquidity(a) /\ WithinOperation

DecreaseExternalLiquidity ==
    \E a \in DecimalArgs :
        decrease_external_liquidity(a) /\ WithinOperation

TakeFlashloan ==
    \E l \in DecimalArgs, f \in FeeArgs :
        take_flashloan(l, f) /\ WithinOperation

RepayFlashloan ==
    \E r \in Resources, a \in BucketAmounts(asset_step),
       t \in flashloan_terms \cup ForeignReceipts \cup {FungibleAsReceipt} :
        /\ r = "asset" \/ (a = 0 /\ t \in flashloan_terms)
        \* a receipt that is not the pool's is presented with no loan or one
        \* loan outstanding
        /\ t \in flashloan_terms \/ Cardinality(flashloan_terms) <= 1
        /\ repay_flashloan(r, a, t)
        /\ WithinOperation

\* the caller ends the operation in progress
EndOfOperation ==
    /\ InOperation
    /\ EndOperation
    /\ round_trip' = RoundTripAfter(last, last')

Next ==
    \/ Contribute
    \/ Redeem
    \/ ProtectedWithdraw
    \/ ProtectedDeposit
    \/ IncreaseExternalLiquidity
    \/ DecreaseExternalLiquidity
    \/ TakeFlashloan
    \/ RepayFlashloan
    \/ EndOfOperation

Spec == Init /\ [][Next]_vars

(***************************************************************************)
(* SpecScenario: the worked example.  A pool holding custody but no pool   *)
(* unit, no external liquidity and the ratio 1 (a pool whose only holder   *)
(* redeemed everything after flash-loan fees had been paid in) receives a  *)
(* contribute, then a protected_withdraw with LiquidityWithdrawal, then    *)
(* the redeem of every pool unit.  The asset has the Decimal's precision.  *)
(***************************************************************************)
InitScenario ==
    /\ liquidity \in 0..ScenarioCustody
    /\ external_liquidity_amount = 0
    /\ unit_to_asset_ratio = PreciseOne
    /\ pool_unit_supply = 0
    /\ flashloan_terms = {}
    /\ asset_step = 1
    /\ committed = Pool
    /\ last = Call("scenario", TRUE, "asset", 0, 0, "-", "-", NoReceipt, 0)
    /\ round_trip = NoRoundTrip
    /\ scenario = TRUE
    /\ calls = 0

ScenarioContribute ==
    /\ scenario /\ last.op = "scenario"
    /\ \E a \in 1..MaxAmount : contribute("asset", a) /\ WithinOperation

ScenarioWithdraw ==
    /\ scenario /\ last.op = "contribute" /\ last.ok
    /\ \E a \in 1..MaxAmount, s \in WithdrawStrategies :
           protected_withdraw(a, "LiquidityWithdrawal", s) /\ WithinOperation

ScenarioRedeem ==
    /\ scenario /\ last.op = "protected_withdraw" /\ last.ok
    /\ redeem("pool_unit", pool_unit_supply) /\ WithinOperation

NextScenario == ScenarioContribute \/ ScenarioWithdraw \/ ScenarioRedeem

SpecScenario == InitScenario /\ [][NextScenario]_vars

(***************************************************************************)
(* Properties.                                                             *)
(***************************************************************************)
\* the call recomputed the cached ratio
Recomputes(call) ==
    \/ call.op \in {"increase_external_liquidity", "decrease_external_liquidity"}
    \/ call.op = "protected_withdraw" /\ call.kind = "LiquidityWithdrawal"
    \/ call.op = "protected_deposit" /\ call.kind = "LiquidityAddition"

\* the step rolled the operation back: nothing of it is committed
RolledBack == ~last'.ok /\ Pool' = committed /\ committed' = committed

\* C1: a flash loan cannot be left unrepaid.  An operation commits only by
\* ending with no receipt outstanding, so that no committed pool has one; a
\* receipt only disappears when repay_flashloan is given that receipt and
\* succeeds, or when its operation is rolled back; and an operation that ends
\* while a receipt is outstanding is rolled back, so that custody, supply,
\* ratio and external liquidity are those before it.
C1_FlashloanSettledOrRolledBack ==
    [][ /\ committed'.flashloan_terms = {}
        /\ committed' # committed =>
               /\ last'.op = "end" /\ last'.ok
               /\ flashloan_terms = {} /\ committed' = Pool
        /\ \A t \in flashloan_terms \ flashloan_terms' :
              \/ last'.op = "repay_flashloan" /\ last'.ok /\ last'.receipt = t
              \/ RolledBack
        /\ (last'.op = "end" /\ flashloan_terms # {}) => RolledBack ]_vars

\* C1 witness: an operation was ended with its receipt outstanding and was
\* rejected, the pool being the committed one again.
C1_Witness ==
    /\ last.op = "end" /\ ~last.ok
    /\ Pool = committed /\ flashloan_terms = {} /\ liquidity > 0

\* C2 (as claimed): external_liquidity_amount is never negative.
C2_ExternalLiquidityNonNegative == external_liquidity_amount >= 0

\* C3 (as claimed): the cached ratio is never negative.
C3_RatioNonNegative == unit_to_asset_ratio >= 0

\* C4 (as claimed): whenever total liquidity is 0 the cached ratio is 1.
\* Stated on the states the claim itself can be held to: no flash loan is
\* outstanding and the external liquidity is not negative.
C4_RatioOneWheneverEmpty ==
    (/\ flashloan_terms = {}
     /\ external_liquidity_amount >= 0
     /\ liquidity + external_liquidity_amount = 0) =>
        unit_to_asset_ratio = PreciseOne

\* C4 (amended): right after instantiation, and right after a recompute event
\* that leaves total liquidity at 0, the cached ratio is 1.
C4_RatioOneWhenRecomputedEmpty ==
    /\ last.op = "instantiate" => unit_to_asset_ratio = PreciseOne
    /\ (last.ok /\ Recomputes(last)
            /\ liquidity + external_liquidity_amount = 0) =>
           unit_to_asset_ratio = PreciseOne

\* C4 witness: a recompute event left total liquidity at 0 while pool units
\* are outstanding.
C4_Witness ==
    /\ last.ok /\ Recomputes(last)
    /\ liquidity + external_liquidity_amount = 0
    /\ pool_unit_supply > 0

\* C5 (as claimed): a redeem does not succeed with a payout above the custody
\* balance, and a successful redeem lowers custody by exactly the payout
\* truncate(u / ratio), custody staying >= 0.
C5_RedeemPaysExactly ==
    [][ (last'.op = "redeem" /\ last'.ok) =>
            LET payout == RedeemAmount(last'.amount, unit_to_asset_ratio)
            IN  /\ payout <= liquidity
                /\ liquidity' = liquidity - payout
                /\ liquidity' >= 0 ]_vars

\* C5 (amended): a redeem does not succeed with a payout above the custody
\* balance, whatever the external liquidity, and a successful redeem lowers
\* custody by the payout rounded toward zero to the asset's divisibility
\* (the payout itself when it is a valid amount of the asset), custody
\* staying >= 0.
C5_RedeemPaysRounded ==
    [][ (last'.op = "redeem" /\ last'.ok) =>
            LET payout == RedeemAmount(last'.amount, unit_to_asset_ratio)
                paid == liquidity - liquidity'
            IN  /\ payout <= liquidity
                /\ paid >= 0 /\ paid % asset_step = 0
                /\ Abs(paid) <= Abs(payout)
                /\ Abs(payout - paid) < asset_step
                /\ last'.ret = paid
                /\ liquidity' >= 0 ]_vars

\* C5 witness: a redeem paid out assets while external liquidity is positive.
C5_Witness ==
    /\ last.op = "redeem" /\ last.ok /\ last.ret > 0
    /\ external_liquidity_amount > 0

\* C6 (as claimed): decrease_external_liquidity(x) fails when x is negative or
\* above the external liquidity and then leaves the state as it was before
\* the call; otherwise it succeeds and leaves the external liquidity at its
\* old value minus x, which is >= 0.
C6_FailedDecreaseLeavesState ==
    [][ last'.op = "decrease_external_liquidity" =>
            IF last'.amount < 0 \/ last'.amount > external_liquidity_amount
            THEN ~last'.ok /\ Pool' = Pool /\ committed' = committed
            ELSE /\ last'.ok
                 /\ external_liquidity_amount' =
                        external_liquidity_amount - last'.amount
                 /\ external_liquidity_amount' >= 0 ]_vars

\* C6 (amended): decrease_external_liquidity(x) fails when x is negative or
\* above the external liquidity, and its operation is then rolled back: the
\* pool is the one before the operation, which is the one before the call
\* when the call is the first of its operation; otherwise it succeeds and
\* leaves the external liquidity at its old value minus x, which is >= 0.
C6_FailedDecreaseRollsBack ==
    [][ last'.op = "decrease_external_liquidity" =>
            IF last'.amount < 0 \/ last'.amount > external_liquidity_amount
            THEN /\ RolledBack
                 /\ calls = 0 => Pool' = Pool
            ELSE /\ last'.ok
                 /\ external_liquidity_amount' =
                        external_liquidity_amount - last'.amount
                 /\ external_liquidity_amount' >= 0
                 /\ committed' = committed ]_vars

\* C6 witness: a decrease above a positive external liquidity was refused.
C6_Witness ==
    /\ last.op = "decrease_external_liquidity" /\ ~last.ok
    /\ external_liquidity_amount > 0
    /\ last.amount > external_liquidity_amount

\* the step is a repay_flashloan of the receipt the previous call, a
\* take_flashloan, minted, with a repayment of exactly loan_amount + fee_amount
ExactRepaymentOfLastLoan ==
    /\ last.op = "take_flashloan" /\ last.ok
    /\ last'.op = "repay_flashloan" /\ last'.ok
    /\ last'.receipt = last.receipt
    /\ last'.amount = last.receipt.loan_amount + last.receipt.fee_amount

\* C7 (as claimed): take_flashloan, then repay_flashloan with that receipt and
\* exactly loan_amount + fee_amount, leaves custody as it was before
\* take_flashloan and returns no change.
C7_ExactRepaymentLeavesCustody ==
    [][ ExactRepaymentOfLastLoan =>
            /\ liquidity' = liquidity + last.ret
            /\ last'.ret = 0 ]_vars

\* C7 (amended): take_flashloan, then repay_flashloan with that receipt and
\* exactly loan_amount + fee_amount, leaves custody at its value before
\* take_flashloan plus fee_amount, plus the part of loan_amount the vault
\* rounded off when lending (none when loan_amount is a valid amount of the
\* asset), and returns no change.
C7_ExactRepaymentLeavesFee ==
    [][ ExactRepaymentOfLastLoan =>
            LET before == liquidity + last.ret
                rounded_off == last.receipt.loan_amount - last.ret
            IN  /\ rounded_off >= 0 /\ rounded_off < asset_step
                /\ liquidity' = before + last.receipt.fee_amount + rounded_off
                /\ last'.ret = 0 ]_vars

\* C7 witness: a loan with a fee was repaid with exactly the amount due.
C7_Witness ==
    /\ last.op = "repay_flashloan" /\ last.ok
    /\ last.receipt.resource = "flashloan_term"
    /\ last.receipt.fee_amount > 0
    /\ last.amount = last.receipt.loan_amount + last.receipt.fee_amount
    /\ last.ret = 0

\* C8 (as claimed): a successful repay_flashloan puts exactly loan_amount +
\* fee_amount into custody and returns the repayment less that sum.
C8_RepayDepositsExactly ==
    [][ (last'.op = "repay_flashloan" /\ last'.ok) =>
            LET due == last'.receipt.loan_amount + last'.receipt.fee_amount
            IN  /\ liquidity' = liquidity + due
                /\ last'.ret = last'.amount - due ]_vars

\* C8 (amended): a successful repay_flashloan puts loan_amount + fee_amount,
\* rounded toward zero to the asset's divisibility, into custody (the sum
\* itself when it is a valid amount of the asset) and returns the repayment
\* less what it put into custody.
C8_RepayDepositsRounded ==
    [][ (last'.op = "repay_flashloan" /\ last'.ok) =>
            LET due == last'.receipt.loan_amount + last'.receipt.fee_amount
                paid == liquidity' - liquidity
            IN  /\ paid >= 0 /\ paid % asset_step = 0
                /\ paid <= due /\ due - paid < asset_step
                /\ last'.ret = last'.amount - paid ]_vars

\* C8 witness: a loan was repaid with more than was due and change came back.
C8_Witness ==
    /\ last.op = "repay_flashloan" /\ last.ok
    /\ last.receipt.resource = "flashloan_term"
    /\ last.amount > last.receipt.loan_amount + last.receipt.fee_amount
    /\ last.ret > 0

\* the step is a repay_flashloan of the receipt the previous call, a
\* take_flashloan, minted, with a repayment below loan_amount + fee_amount
UnderpaidRepaymentOfLastLoan ==
    /\ last.op = "take_flashloan" /\ last.ok
    /\ last'.op = "repay_flashloan"
    /\ last'.receipt = last.receipt
    /\ last'.amount < last.receipt.loan_amount + last.receipt.fee_amount

\* C9 (as claimed): repay_flashloan fails when the repayment is below
\* loan_amount + fee_amount, and custody and pool-unit supply are then those
\* before the take_flashloan of the operation.
C9_UnderpaidRepayRestoresBeforeLoan ==
    [][ /\ (/\ last'.op = "repay_flashloan"
            /\ last'.amount <
                   last'.receipt.loan_amount + last'.receipt.fee_amount) =>
               ~last'.ok
        /\ UnderpaidRepaymentOfLastLoan =>
               /\ liquidity' = liquidity + last.ret
               /\ pool_unit_supply' = pool_unit_supply ]_vars

\* C9 (amended): repay_flashloan fails when the repayment is below loan_amount
\* + fee_amount, and its operation is rolled back: custody and pool-unit
\* supply are those before the operation, which are those before its
\* take_flashloan when the operation began with it.
C9_UnderpaidRepayRollsBack ==
    [][ /\ (/\ last'.op = "repay_flashloan"
            /\ last'.amount <
                   last'.receipt.loan_amount + last'.receipt.fee_amount) =>
               /\ ~last'.ok
               /\ liquidity' = committed.liquidity
               /\ pool_unit_supply' = committed.pool_unit_supply
               /\ committed' = committed
        /\ (UnderpaidRepaymentOfLastLoan /\ calls = 1) =>
               /\ liquidity' = liquidity + last.ret
               /\ pool_unit_supply' = pool_unit_supply ]_vars

\* C9 witness: the receipt of a loan was presented with too small a repayment
\* and the pool is the committed one, holding the loan again.
C9_Witness ==
    /\ last.op = "repay_flashloan" /\ ~last.ok
    /\ last.receipt.resource = "flashloan_term"
    /\ last.amount < last.receipt.loan_amount + last.receipt.fee_amount
    /\ Pool = committed
    /\ liquidity >= last.receipt.loan_amount

\* C10: a contribute of a > 0 followed at once by the redeem of exactly the
\* units it minted returns, when the redeem succeeds, no more than a.
C10_RoundTripNeverFavorsCaller ==
    round_trip.redeemed => round_trip.returned <= round_trip.contributed

\* C10 witness: a round trip was made at a ratio that is not 1 and returned
\* assets, less than were contributed.
C10_Witness ==
    /\ round_trip.redeemed
    /\ round_trip.returned > 0
    /\ round_trip.returned < round_trip.contributed

\* the step is the redeem of exactly the units minted by the contribute of a
\* positive amount that was the call before it
RoundTripStep ==
    /\ last.op = "contribute" /\ last.ok /\ last.amount > 0
    /\ last'.op = "redeem" /\ last'.resource = "pool_unit"
    /\ last'.amount = last.ret

\* C11 (as claimed): a contribute of a followed at once by the redeem of the
\* units it minted: the redeem succeeds and a minus the amount returned is at
\* most one minimal unit of the asset, whatever the cached ratio.
C11_RoundTripLosesAtMostOneUnit ==
    [][ RoundTripStep =>
            /\ last'.ok
            /\ last.amount - last'.ret <= asset_step ]_vars

\* C11 (amended): when the cached ratio is positive, the redeem succeeds,
\* returns no more than a, and a minus the amount returned is less than
\* 1 / ratio minimal units of the Decimal plus one minimal unit of the asset
\* (so at most one minimal unit of the asset when the ratio is >= 1).
C11_RoundTripLossBoundedByRatio ==
    [][ (RoundTripStep /\ unit_to_asset_ratio > 0) =>
            /\ last'.ok
            /\ last'.ret <= last.amount
            /\ (last.amount - last'.ret - asset_step) * unit_to_asset_ratio
                   < PreciseOne ]_vars

\* C11 witness: a round trip at a ratio strictly between 0 and 1 succeeded and
\* returned less than was contributed.
C11_Witness ==
    /\ round_trip.redeemed
    /\ round_trip.returned < round_trip.contributed
    /\ unit_to_asset_ratio > 0 /\ unit_to_asset_ratio < PreciseOne
    /\ last.op = "redeem" /\ last.ok

\* C12: the worked example, in units of 50 tokens.  From custody c, supply 0,
\* external liquidity 0 and ratio 1: contribute(a) mints a units, leaves the
\* ratio at 1 and makes custody c + a; protected_withdraw(w,
\* LiquidityWithdrawal), w within custody, lowers custody by w, leaves
\* external liquidity 0 and sets the ratio to supply / custody; the redeem of
\* all the units then computes the whole (positive) custody as payout,
\* succeeds, and leaves custody 0.
C12_WorkedExample ==
    [][ /\ last'.op = "contribute" =>
               /\ last'.ok /\ last'.ret = last'.amount
               /\ pool_unit_supply' = last'.amount
               /\ unit_to_asset_ratio' = PreciseOne
               /\ liquidity' = liquidity + last'.amount
        /\ (last'.op = "protected_withdraw" /\ last'.amount < liquidity) =>
               /\ last'.ok /\ last'.ret = last'.amount
               /\ liquidity' = liquidity - last'.amount
               /\ external_liquidity_amount' = 0
               /\ unit_to_asset_ratio' =
                      PreciseDiv(PreciseFrom(pool_unit_supply),
                                 PreciseFrom(liquidity'))
        /\ (last'.op = "redeem" /\ liquidity > 0) =>
               /\ RedeemAmount(last'.amount, unit_to_asset_ratio) = liquidity
               /\ last'.ok /\ last'.ret = liquidity
               /\ liquidity' = 0 /\ pool_unit_supply' = 0 ]_vars

\* C12 witness: the example itself has run: 2 units (100 tokens) were redeemed
\* for the whole custody of 21 (1050 tokens), at the ratio 2/21, and custody
\* is 0.
C12_Witness ==
    /\ scenario /\ last.op = "redeem" /\ last.ok
    /\ last.amount = 2 /\ last.ret = 21
    /\ unit_to_asset_ratio = PreciseDiv(PreciseFrom(2), PreciseFrom(21))
    /\ liquidity = 0 /\ pool_unit_supply = 0

\* C13: the cached ratio changes only in a successful recompute event
\* (protected_withdraw with LiquidityWithdrawal, protected_deposit with
\* LiquidityAddition, increase_external_liquidity,
\* decrease_external_liquidity); a successful contribute, redeem,
\* protected_withdraw with ForTemporaryUse, protected_deposit with
\* FromTemporaryUse, take_flashloan or repay_flashloan leaves it unchanged.
\* (The rollback of an operation undoes the recompute events made in it.)
C13_RatioChangesOnlyAtRecompute ==
    [][ /\ unit_to_asset_ratio' # unit_to_asset_ratio =>
               \/ last'.ok /\ Recomputes(last')
               \/ RolledBack
        /\ (/\ last'.ok
            /\ \/ last'.op \in {"contribute", "redeem", "take_flashloan",
                                 "repay_flashloan"}
               \/ last'.kind \in {"ForTemporaryUse", "FromTemporaryUse"}) =>
               unit_to_asset_ratio' = unit_to_asset_ratio ]_vars

\* C13 witness: a loan was repaid with a fee > 0, and the cached ratio is not
\* the one a recompute would give now.
C13_Witness ==
    /\ last.op = "repay_flashloan" /\ last.ok
    /\ last.receipt.resource = "flashloan_term"
    /\ last.receipt.fee_amount > 0
    /\ pool_unit_supply > 0
    /\ unit_to_asset_ratio #
           _get_unit_to_asset_ratio(liquidity, external_liquidity_amount,
                                    pool_unit_supply)

\* C14: right after a successful recompute event the cached ratio is
\* pool_unit_supply / (custody + external_liquidity_amount) of the state the
\* event left, or 1 when that total is 0.
C14_RecomputedRatio ==
    (last.ok /\ Recomputes(last)) =>
        unit_to_asset_ratio =
            IF liquidity + external_liquidity_amount = 0
            THEN PreciseOne
            ELSE PreciseDiv(PreciseFrom(pool_unit_supply),
                            PreciseFrom(liquidity + external_liquidity_amount))

\* C14 witness: a recompute event left a pool with custody, external
\* liquidity and pool units, and a ratio that is neither 0 nor 1.
C14_Witness ==
    /\ last.ok /\ Recomputes(last)
    /\ liquidity > 0 /\ external_liquidity_amount > 0 /\ pool_unit_supply > 0
    /\ unit_to_asset_ratio \notin {0, PreciseOne}

\* C15 (as claimed): a successful protected_withdraw with ForTemporaryUse
\* lowers custody by exactly the amount by which it raises the external
\* liquidity, whatever the amount and the strategy, so that total liquidity
\* is unchanged; and the protected_deposit with FromTemporaryUse of the
\* assets it returned, made next, puts custody and external liquidity back
\* to their values before the withdrawal.
C15_TemporaryUsePreservesTotal ==
    [][ /\ (/\ last'.op = "protected_withdraw" /\ last'.ok
            /\ last'.kind = "ForTemporaryUse") =>
               /\ liquidity - liquidity' =
                      external_liquidity_amount' - external_liquidity_amount
               /\ liquidity' + external_liquidity_amount' =
                      liquidity + external_liquidity_amount
        /\ (/\ last.op = "protected_withdraw" /\ last.ok
            /\ last.kind = "ForTemporaryUse"
            /\ last'.op = "protected_deposit" /\ last'.ok
            /\ last'.kind = "FromTemporaryUse"
            /\ last'.amount = last.ret) =>
               /\ liquidity' = liquidity + last.ret
               /\ external_liquidity_amount' =
                      external_liquidity_amount - last.amount ]_vars

\* pool_unit_supply - ratio * (custody + external liquidity), in PreciseDecimal
\* sub-units: 0 when the ratio is exactly supply / total liquidity
RatioDrift(supply, ratio, liq, ext) ==
    PreciseFrom(supply) - ratio * (liq + ext)

\* C16 (as claimed): after a successful contribute or redeem, a recompute
\* would give the cached ratio again.
C16_RecomputeAfterCallGivesCachedRatio ==
    [][ (last'.ok /\ last'.op \in {"contribute", "redeem"}) =>
            unit_to_asset_ratio' =
                _get_unit_to_asset_ratio(liquidity', external_liquidity_amount',
                                         pool_unit_supply') ]_vars

\* C16 (amended): a successful contribute or redeem at a cached ratio >= 0
\* (> 0 for redeem) preserves supply - ratio * total liquidity up to the
\* rounding of the call: contribute lowers it by less than one minimal pool
\* unit, redeem by less than ratio times the asset's smallest amount, and
\* neither raises it.  When the call rounds nothing it is unchanged, so that
\* if the cached ratio was exactly supply / total liquidity before the call
\* and total liquidity is not 0 after it, a recompute would give the cached
\* ratio again.
C16_RatioPreservedUpToRounding ==
    [][ (/\ last'.ok /\ last'.op \in {"contribute", "redeem"}
         /\ unit_to_asset_ratio >= 0) =>
            LET ratio == unit_to_asset_ratio
                before == RatioDrift(pool_unit_supply, ratio, liquidity,
                                     external_liquidity_amount)
                after == RatioDrift(pool_unit_supply', ratio, liquidity',
                                    external_liquidity_amount')
                exact ==
                    IF last'.op = "contribute"
                    THEN (last'.amount * ratio) % PreciseOne = 0
                    ELSE /\ PreciseFrom(last'.amount) % ratio = 0
                         /\ (PreciseFrom(last'.amount) \div ratio)
                                % asset_step = 0
            IN  /\ unit_to_asset_ratio' = ratio
                /\ after <= before
                /\ last'.op = "contribute" => after > before - PreciseOne
                /\ last'.op = "redeem" => after > before - ratio * asset_step
                /\ exact => after = before
                /\ (/\ exact /\ before = 0
                    /\ liquidity' + external_liquidity_amount' # 0) =>
                       PreciseDiv(PreciseFrom(pool_unit_supply'),
                                  PreciseFrom(liquidity' +
                                              external_liquidity_amount'))
                           = ratio ]_vars

\* C16 witness: a contribute at a ratio that was exactly supply / total
\* liquidity minted truncated units, and a recompute would now give another
\* ratio than the cached one.
C16_Witness ==
    /\ last.op = "contribute" /\ last.ok /\ last.amount > 0
    /\ flashloan_terms = {}
    /\ unit_to_asset_ratio > 0
    /\ PreciseFrom(last.ret) < last.amount * unit_to_asset_ratio
    /\ RatioDrift(pool_unit_supply - last.ret, unit_to_asset_ratio,
                  liquidity - last.amount, external_liquidity_amount) = 0
    /\ liquidity + external_liquidity_amount # 0
    /\ PreciseDiv(PreciseFrom(pool_unit_supply),
                  PreciseFrom(liquidity + external_liquidity_amount))
           # unit_to_asset_ratio

\* C17 (as claimed): a failed call, in particular a redeem that fails the
\* liquidity check after its pool units were burned, leaves pool-unit supply,
\* custody, external liquidity and ratio exactly as they were before the call.
C17_FailedCallLeavesState ==
    [][ (~last'.ok /\ last'.op # "end") =>
            /\ pool_unit_supply' = pool_unit_supply
            /\ liquidity' = liquidity
            /\ external_liquidity_amount' = external_liquidity_amount
            /\ unit_to_asset_ratio' = unit_to_asset_ratio ]_vars

\* C17 (amended): a failed call has no partial effect.  Its operation is
\* rolled back: nothing of it is committed and pool-unit supply, custody,
\* external liquidity and ratio are those before the operation, which are
\* those before the call when the call is the first of its operation; in
\* particular for a redeem that fails the liquidity check after its pool
\* units were burned.
C17_FailedCallRollsBack ==
    [][ (~last'.ok /\ last'.op # "end") =>
            /\ Pool' = committed /\ committed' = committed
            /\ calls = 0 => Pool' = Pool ]_vars

\* C17 witness: a redeem of a positive number of units failed the liquidity
\* check, and the units are still in the supply.
C17_Witness ==
    /\ last.op = "redeem" /\ ~last.ok
    /\ last.resource = "pool_unit" /\ last.amount > 0
    /\ unit_to_asset_ratio > 0
    /\ RedeemAmount(last.amount, unit_to_asset_ratio) > liquidity
    /\ pool_unit_supply >= last.amount
    /\ Pool = committed

\* C18 (as claimed): repay_flashloan fails when it is given anything but a
\* receipt the pool minted and that is outstanding; and a receipt of the pool
\* is discharged only by a successful repay_flashloan that presents it with a
\* repayment of at least loan_amount + fee_amount, or not at all (its
\* operation is rolled back).
C18_OnlyOwnReceiptAccepted ==
    [][ /\ (/\ last'.op = "repay_flashloan"
            /\ last'.receipt \notin flashloan_terms) => ~last'.ok
        /\ \A t \in flashloan_terms \ flashloan_terms' :
              \/ /\ last'.op = "repay_flashloan" /\ last'.ok
                 /\ last'.receipt = t
                 /\ last'.amount >= t.loan_amount + t.fee_amount
              \/ RolledBack ]_vars

\* C19 (as claimed): the cached ratio is strictly positive in every reachable
\* state, also after a recompute event executed while the pool-unit supply is
\* 0 and total liquidity is positive.
C19_RatioPositive == unit_to_asset_ratio > 0

\* the assets lent out against the receipts: what take_flashloan took from
\* the vault for each of them
RECURSIVE Lent(_, _)
Lent(terms, step) ==
    IF terms = {} THEN 0
    ELSE LET t == CHOOSE x \in terms : TRUE
         IN  ForWithdrawal(t.loan_amount, step, "RoundedToZero")
                 + Lent(terms \ {t}, step)

\* C20 (as claimed): a recompute event executed while a flash loan is
\* outstanding caches the ratio the same event would cache with no loan
\* outstanding, that is with the lent assets still in custody; so a
\* contribute made after it, before the repayment, mints the units it would
\* mint without the loan.
C20_LoanDoesNotDistortRatio ==
    [][ /\ (/\ last'.ok /\ Recomputes(last') /\ flashloan_terms # {}) =>
               unit_to_asset_ratio' =
                   _get_unit_to_asset_ratio(
                       liquidity' + Lent(flashloan_terms', asset_step),
                       external_liquidity_amount', pool_unit_supply')
        /\ (/\ last.ok /\ Recomputes(last) /\ flashloan_terms # {}
            /\ last'.op = "contribute" /\ last'.ok) =>
               last'.ret =
                   ContributeUnits(
                       last'.amount,
                       _get_unit_to_asset_ratio(
                           liquidity + Lent(flashloan_terms, asset_step),
                           external_liquidity_amount, pool_unit_supply)) ]_vars

====
